---- MODULE Spec2Model ----
(***************************************************************************)
(* release-notes-assist: the multi-destination publication pipeline        *)
(* (src/src/publisher.py) and the bounded collection pipeline              *)
(* (src/src/github_collector.py), the text generation (note_generator.py)  *)
(* and the run that chains them (main.py) as state machines.               *)
(*                                                                         *)
(* A call is modelled step by step, one step per remote request, because   *)
(* the remote side's answer (success, API error, transport error, other    *)
(* error) is the input of each step.                                       *)
(***************************************************************************)
EXTENDS Integers, Sequences, FiniteSets, TLC

VARIABLES
    \* ---- Publisher object (publisher.py:39-62)
    github,          \* self.github is a client (TRUE) or None (FALSE)
    slack_client,    \* self.slack_client is a client or None
    confluence,      \* self.confluence is a client or None
    \* ---- remote wiki service and the calendar
    pages,           \* the wiki's pages: records id, space, title, body, parent
    nextId,          \* the id the wiki gives to the next created page
    today,           \* the current day, read by datetime.now() for a default title
    \* ---- the publisher call in progress
    entry,           \* the method the caller invoked, "none" when idle
    pc,              \* control point of the call in progress
    release_notes,   \* the document argument
    data,            \* destination kind -> config (publish_all's data argument)
    results,         \* publish_all's local results map
    attempted,       \* destinations whose publish_to_* publish_all has invoked
    ret,             \* return value of a publish_to_* entry call
    page_title,      \* publish_to_confluence's local page_title
    existing_page,   \* publish_to_confluence's local existing_page
    trace,           \* remote requests issued by the call in progress
    writers,         \* publish_to_confluence invocations running side by side
    \* ---- GitHubCollector object (github_collector.py:28-35)
    organization,    \* self.organization is set (TRUE) or None (FALSE)
    repository,      \* self.repository is set or None
    collect_issues,  \* self.collect_issues
    \* ---- remote repository service and the wall clock
    now,             \* the wall clock, in days
    \* ---- the collector call in progress
    centry,          \* the method the caller invoked, "none" when idle
    cpc,             \* control point of the call in progress
    kind,            \* the activity kind being collected
    timeout,         \* the timeout argument
    since_date,      \* local since_date of the kind being collected
    start_time,      \* local start_time of the kind being collected
    repositories,    \* local repositories of the kind being collected
    ri,              \* position of the for-loop over repositories
    ii,              \* position of the for-loop over the repository's items
    pulls,           \* the items listed for repository ri (pulls, repo_commits, updated_issues)
    acc,             \* the kind's result list (merged_prs, commits or issues)
    acc0,            \* what acc held when the loop reached repository ri
    served,          \* this kind: per repository left behind, its listing and how it ended
    late_calls,      \* this kind: searches started with the timeout already exceeded
    coll,            \* collect_data's local data dictionary
    timed_out,       \* the kind being collected returned at the timeout check
    kinds_run,       \* collect_data: the kinds collected so far, with their boundary
    requests,        \* kind -> repository lookups issued, and whether activity was requested
    \* ---- the NoteGenerator call in progress (note_generator.py:212-275)
    gen_entry,       \* the method the caller invoked, "none" when idle
    gen_pc,          \* control point of the call in progress
    github_data,     \* the github_data argument; generate_and_publish's local github_data
    prompt,          \* local prompt
    completions,     \* completion requests issued by the call in progress
    response,        \* local response
    gen_ret,         \* return value of the call
    issued,          \* completion requests issued since the generator exists
    \* ---- the generate_and_publish run in progress (main.py:83-168)
    run_pc,          \* control point of the run, "idle" when there is none
    handed,          \* the dictionary collect_data returned to the run
    notes,           \* local release_notes
    doc_updates,     \* local doc_updates
    written,         \* content of the release notes file
    run_ret,         \* return value of the run
    publish_enabled  \* config["publish"]["enabled"] of the run

pubVars == <<github, slack_client, confluence, pages, nextId, today, entry, pc,
             release_notes, data, results, attempted, ret, page_title,
             existing_page, trace, writers>>

colVars == <<organization, repository, collect_issues, now, centry, cpc, kind,
             timeout, since_date, start_time, repositories, ri, ii, pulls, acc,
             acc0, served, late_calls, coll, timed_out, kinds_run, requests>>

genVars == <<gen_entry, gen_pc, github_data, prompt, completions, response, gen_ret,
             issued>>

runVars == <<run_pc, handed, notes, doc_updates, written, run_ret, publish_enabled>>

vars == <<pubVars, colVars, genVars, runVars>>

(***************************************************************************)
(* Bounds of the model.                                                    *)
(***************************************************************************)
MaxDay == 2
MaxPages == 4

(***************************************************************************)
(* Text.  A string is a sequence of runs [ch, n]: n >= 1 copies of the     *)
(* character ch, adjacent runs having different characters.  A literal     *)
(* piece of markup is one run of a token naming it.                        *)
(***************************************************************************)
Run(c, k) == IF k <= 0 THEN <<>> ELSE <<[ch |-> c, n |-> k]>>

RECURSIVE StrLen(_)
StrLen(s) == IF s = <<>> THEN 0 ELSE Head(s).n + StrLen(Tail(s))

\* Python's s[:k]
StrPrefixNoCut(s, k) == s

RECURSIVE StrPrefix(_, _)
StrPrefix(s, k) ==
    IF s = <<>> \/ k <= 0 THEN <<>>
    ELSE IF Head(s).n <= k
         THEN <<Head(s)>> \o StrPrefix(Tail(s), k - Head(s).n)
         ELSE Run(Head(s).ch, k)

None == "None"
Falsy(v) == v \in {None, ""}
Or(v, default) == IF Falsy(v) THEN default ELSE v

SlackTextLimit == 3000

ShortDoc == Run("a", 10)
LongDoc == Run("a", SlackTextLimit - 1) \o Run("b", 2001)
Docs == { ShortDoc,
          Run("a", SlackTextLimit),
          Run("a", SlackTextLimit) \o Run("b", 1),
          LongDoc }
WikiDocs == {ShortDoc, LongDoc}

(***************************************************************************)
(* Destinations and their configurations.                                  *)
(***************************************************************************)
Kinds == {"github", "slack", "confluence"}
Order == <<"github", "slack", "confluence">>

NoCfg == [absent |-> TRUE]
GithubCfgs == {[repo_name |-> "o/r", tag_name |-> "v1", name |-> None,
                draft |-> FALSE, prerelease |-> FALSE]}
SlackCfgs == {[channel_id |-> "C1", title |-> None]}
Titles == {None, "Notes"}
ConfluenceCfgs == {[space_key |-> "S1", parent_page_id |-> "P0", title |-> t] :
                      t \in Titles}
CfgsOf(k) == CASE k = "github" -> GithubCfgs
               [] k = "slack" -> SlackCfgs
               [] k = "confluence" -> ConfluenceCfgs

\* what a remote request can end in: success, an error the service reports
\* (GithubException, SlackApiError), a transport error, any other error class
Faults == {"ok", "api", "network", "unexpected"}

(***************************************************************************)
(* Remote wiki service: get page by space + exact title, update page by    *)
(* id, create page under a parent.                                         *)
(***************************************************************************)
NoPage == [id |-> -1]

GetPageByTitleNever(ps, space, title) == NoPage

GetPageByTitle(ps, space, title) ==
    LET m == {p \in ps : p.space = space /\ p.title = title}
    IN  IF m = {} THEN NoPage ELSE CHOOSE p \in m : \A q \in m : p.id <= q.id

UpdatePage(ps, id, title, body) ==
    {IF p.id = id THEN [p EXCEPT !.title = title, !.body = body] ELSE p : p \in ps}

CreatePage(ps, id, space, title, body, parent) ==
    ps \cup {[id |-> id, space |-> space, title |-> title, body |-> body,
              parent |-> parent]}

DateTitle(day) == "Release Notes - " \o ToString(day)

MacroOpen == Run("<ac:structured-macro markdown><![CDATA[", 1)
MacroClose == Run("]]></ac:structured-macro>", 1)
StorageContent(doc) == MacroOpen \o doc \o MacroClose

(***************************************************************************)
(* Chat message body.                                                      *)
(***************************************************************************)
TruncationNotice == Run("...(content truncated due to length limits. See full release notes on GitHub)...", 1)

SlackBlocks(doc, title) ==
    <<[type |-> "header", text |-> Or(title, "New Release Notes")],
      [type |-> "divider"],
      [type |-> "section", text |-> StrPrefix(doc, SlackTextLimit)]>>
    \o (IF StrLen(doc) > SlackTextLimit
        THEN <<[type |-> "section", text |-> TruncationNotice]>>
        ELSE <<>>)

(***************************************************************************)
(* Publisher control flow.                                                 *)
(***************************************************************************)
Client(k) == CASE k = "github" -> github
               [] k = "slack" -> slack_client
               [] k = "confluence" -> confluence

IndexOf(k) == CHOOSE i \in 1..Len(Order) : Order[i] = k

FirstCall(k) == CASE k = "github" -> "gh_get_repo"
                  [] k = "slack" -> "slack_post"
                  [] k = "confluence" -> "cf_lookup"

\* Python's m[k] = v
SetKey(m, k, v) == [x \in DOMAIN m \cup {k} |-> IF x = k THEN v ELSE m[x]]

EmptyResults == [k \in {} |-> FALSE]

InitialResults == [k \in Kinds |-> FALSE]

\* publish_all's "if self.<client> and data.get(<kind>)"
AttemptWithoutClient(d, k) == d[k] # NoCfg

Attempt(d, k) == Client(k) /\ d[k] # NoCfg

\* the first destination from Order[i] on that publish_all invokes, 0 if none
RECURSIVE NextAttempt(_, _)
NextAttempt(d, i) ==
    IF i > Len(Order) THEN 0
    ELSE IF Attempt(d, Order[i]) THEN i ELSE NextAttempt(d, i + 1)

\* which error classes each publish_to_* catches
GithubCatches(f) == f = "api"

SlackCatches(f) == f = "api"

ConfluenceCatchesApiOnly(f) == f = "api"

ConfluenceCatches(f) == TRUE

Catches(k, f) == CASE k = "github" -> GithubCatches(f)
                   [] k = "slack" -> SlackCatches(f)
                   [] k = "confluence" -> ConfluenceCatches(f)

PageTitleFor(k, d) ==
    IF k = "confluence" THEN Or(d[k].title, DateTitle(today)) ELSE page_title

\* publish_all goes on with the destinations from Order[i] on
EnterNext(d, i, att) ==
    LET j == NextAttempt(d, i)
    IN  IF j = 0
        THEN /\ pc' = "returned"
             /\ attempted' = att
             /\ page_title' = page_title
        ELSE /\ pc' = FirstCall(Order[j])
             /\ attempted' = Append(att, Order[j])
             /\ page_title' = PageTitleFor(Order[j], d)

\* publish_to_<k> returns v
Return(k, v) ==
    IF entry = "publish_all"
    THEN /\ results' = SetKey(results, k, v)
         /\ ret' = ret
         /\ EnterNext(data, IndexOf(k) + 1, attempted)
    ELSE /\ ret' = v
         /\ pc' = "returned"
         /\ UNCHANGED <<results, attempted, page_title>>

\* an exception leaves publish_to_<k>, and publish_all with it
Raise == /\ pc' = "raised"
         /\ UNCHANGED <<results, ret, attempted, page_title>>

GoTo(p) == /\ pc' = p
           /\ UNCHANGED <<results, ret, attempted, page_title>>

\* the outcome of a remote request that failed with f inside publish_to_<k>
Failed(k, f) == IF Catches(k, f) THEN Return(k, FALSE) ELSE Raise

Request(api, f, req) == [api |-> api, fault |-> f, req |-> req]

pubFixed == <<github, slack_client, confluence, today, entry, release_notes, data,
              writers>>

CallPublishAll(doc, d) ==
    /\ pc = "idle"
    /\ Cardinality(pages) < MaxPages
    /\ entry' = "publish_all"
    /\ release_notes' = doc
    /\ data' = d
    /\ results' = InitialResults
    /\ ret' = FALSE
    /\ trace' = <<>>
    /\ existing_page' = NoPage
    /\ EnterNext(d, 1, <<>>)
    /\ UNCHANGED <<github, slack_client, confluence, today, pages, nextId, writers>>
    /\ UNCHANGED colVars
    /\ UNCHANGED <<genVars, runVars>>

CallPublishTo(k, doc, cfg) ==
    /\ pc = "idle"
    /\ Cardinality(pages) < MaxPages
    /\ entry' = "publish_to_" \o k
    /\ release_notes' = doc
    /\ data' = [x \in Kinds |-> IF x = k THEN cfg ELSE NoCfg]
    /\ results' = InitialResults
    /\ ret' = FALSE
    /\ trace' = <<>>
    /\ existing_page' = NoPage
    /\ attempted' = <<>>
    /\ IF Client(k)
       THEN /\ pc' = FirstCall(k)
            /\ page_title' = PageTitleFor(k, data')
       ELSE /\ pc' = "returned"
            /\ page_title' = page_title
    /\ UNCHANGED <<github, slack_client, confluence, today, pages, nextId, writers>>
    /\ UNCHANGED colVars
    /\ UNCHANGED <<genVars, runVars>>

GhGetRepo(f) ==
    /\ pc = "gh_get_repo"
    /\ trace' = Append(trace, Request("get_repo", f,
                          [repo_name |-> data["github"].repo_name]))
    /\ IF f = "ok" THEN GoTo("gh_create_release") ELSE Failed("github", f)
    /\ UNCHANGED <<pubFixed, pages, nextId, existing_page>>
    /\ UNCHANGED colVars
    /\ UNCHANGED <<genVars, runVars>>

GhCreateRelease(f) ==
    /\ pc = "gh_create_release"
    /\ LET c == data["github"]
       IN  trace' = Append(trace, Request("create_git_release", f,
                       [tag |-> c.tag_name,
                        name |-> Or(c.name, "Release " \o c.tag_name),
                        message |-> release_notes,
                        draft |-> c.draft, prerelease |-> c.prerelease]))
    /\ IF f = "ok" THEN Return("github", TRUE) ELSE Failed("github", f)
    /\ UNCHANGED <<pubFixed, pages, nextId, existing_page>>
    /\ UNCHANGED colVars
    /\ UNCHANGED <<genVars, runVars>>

SlackPost(f) ==
    /\ pc = "slack_post"
    /\ LET c == data["slack"]
       IN  trace' = Append(trace, Request("chat_postMessage", f,
                       [channel |-> c.channel_id,
                        blocks |-> SlackBlocks(release_notes, c.title),
                        text |-> Or(c.title, "New Release Notes")]))
    /\ IF f = "ok" THEN Return("slack", TRUE) ELSE Failed("slack", f)
    /\ UNCHANGED <<pubFixed, pages, nextId, existing_page>>
    /\ UNCHANGED colVars
    /\ UNCHANGED <<genVars, runVars>>

CfLookup(f) ==
    /\ pc = "cf_lookup"
    /\ LET c == data["confluence"]
       IN  /\ trace' = Append(trace, Request("get_page_by_title", f,
                           [space |-> c.space_key, title |-> page_title]))
           /\ IF f = "ok"
              THEN /\ existing_page' = GetPageByTitle(pages, c.space_key, page_title)
                   /\ GoTo("cf_write")
              ELSE /\ existing_page' = existing_page
                   /\ Failed("confluence", f)
    /\ UNCHANGED <<pubFixed, pages, nextId>>
    /\ UNCHANGED colVars
    /\ UNCHANGED <<genVars, runVars>>

CfWrite(f) ==
    /\ pc = "cf_write"
    /\ LET c == data["confluence"]
           content == StorageContent(release_notes)
       IN  IF existing_page # NoPage
           THEN /\ trace' = Append(trace, Request("update_page", f,
                                [page_id |-> existing_page.id, title |-> page_title,
                                 body |-> content]))
                /\ pages' = IF f = "ok"
                            THEN UpdatePage(pages, existing_page.id, page_title, content)
                            ELSE pages
                /\ nextId' = nextId
           ELSE /\ trace' = Append(trace, Request("create_page", f,
                                [space |-> c.space_key, title |-> page_title,
                                 body |-> content, parent_id |-> c.parent_page_id]))
                /\ pages' = IF f = "ok"
                            THEN CreatePage(pages, nextId, c.space_key, page_title,
                                            content, c.parent_page_id)
                            ELSE pages
                /\ nextId' = IF f = "ok" THEN nextId + 1 ELSE nextId
    /\ IF f = "ok" THEN Return("confluence", TRUE) ELSE Failed("confluence", f)
    /\ UNCHANGED <<pubFixed, existing_page>>
    /\ UNCHANGED colVars
    /\ UNCHANGED <<genVars, runVars>>

\* the caller takes the result; the publisher is ready for the next call
Finish ==
    /\ pc \in {"returned", "raised"}
    /\ pc' = "idle"
    /\ entry' = "none"
    /\ release_notes' = <<>>
    /\ data' = [k \in Kinds |-> NoCfg]
    /\ results' = InitialResults
    /\ attempted' = <<>>
    /\ ret' = FALSE
    /\ page_title' = None
    /\ existing_page' = NoPage
    /\ trace' = <<>>
    /\ UNCHANGED <<github, slack_client, confluence, today, pages, nextId, writers>>
    /\ UNCHANGED colVars
    /\ UNCHANGED <<genVars, runVars>>

\* midnight passes
Tick ==
    /\ today < MaxDay
    /\ today' = today + 1
    /\ UNCHANGED <<github, slack_client, confluence, pages, nextId, entry, pc,
                   release_notes, data, results, attempted, ret, page_title,
                   existing_page, trace, writers>>
    /\ UNCHANGED colVars
    /\ UNCHANGED <<genVars, runVars>>

(***************************************************************************)
(* Two publish_to_confluence invocations on one publisher and one wiki,    *)
(* as two threads of a caller make them; each keeps its own arguments and  *)
(* locals, and the steps of the two interleave at the remote requests.     *)
(***************************************************************************)
Writers == {1, 2}

\* an invocation: control point, arguments, locals page_title and
\* existing_page, return value; fresh and overlap record how it began: the
\* wiki had no page of its space and title, and the other invocation was
\* running
WriterIdle ==
    [pc |-> "idle", cfg |-> NoCfg, doc |-> <<>>, page_title |-> None,
     existing_page |-> NoPage, ret |-> FALSE, fresh |-> FALSE, overlap |-> FALSE]

Running(w) == writers[w].pc \in {"cf_lookup", "cf_write"}

writerFixed == <<github, slack_client, confluence, today, entry, pc, release_notes,
                 data, results, attempted, ret, page_title, existing_page, trace>>

\* publish_to_confluence(space_key, parent_page_id, release_notes, title)
WriterCall(w, doc, cfg) ==
    /\ writers[w].pc = "idle"
    /\ LET title == Or(cfg.title, DateTitle(today))
           others == {v \in Writers \ {w} : Running(v)}
           mine == [pc |-> IF confluence THEN "cf_lookup" ELSE "returned",
                    cfg |-> cfg,
                    doc |-> doc,
                    page_title |-> IF confluence THEN title ELSE None,
                    existing_page |-> NoPage,
                    ret |-> FALSE,
                    fresh |-> GetPageByTitle(pages, cfg.space_key, title) = NoPage,
                    overlap |-> confluence /\ others # {}]
       IN  writers' = [v \in Writers |->
                          IF v = w THEN mine
                          ELSE IF v \in others /\ confluence
                          THEN [writers[v] EXCEPT !.overlap = TRUE]
                          ELSE writers[v]]
    /\ UNCHANGED <<writerFixed, pages, nextId>>
    /\ UNCHANGED colVars
    /\ UNCHANGED <<genVars, runVars>>

\* the invocation is over with value v, or an exception leaves it
WriterEnds(w, f, v) ==
    IF f = "ok" \/ ConfluenceCatches(f)
    THEN [writers[w] EXCEPT !.pc = "returned", !.ret = v]
    ELSE [writers[w] EXCEPT !.pc = "raised"]

\* existing_page = self.confluence.get_page_by_title(space=space_key, title=page_title)
WriterLookup(w, f) ==
    /\ writers[w].pc = "cf_lookup"
    /\ LET me == writers[w]
       IN  writers' = [writers EXCEPT ![w] =
                          IF f = "ok"
                          THEN [me EXCEPT !.pc = "cf_write",
                                          !.existing_page =
                                              GetPageByTitle(pages, me.cfg.space_key,
                                                             me.page_title)]
                          ELSE WriterEnds(w, f, FALSE)]
    /\ UNCHANGED <<writerFixed, pages, nextId>>
    /\ UNCHANGED colVars
    /\ UNCHANGED <<genVars, runVars>>

\* update_page(page_id=existing_page["id"], ...) or create_page(...)
WriterWrite(w, f) ==
    /\ writers[w].pc = "cf_write"
    /\ LET me == writers[w]
           content == StorageContent(me.doc)
       IN  /\ pages' = IF f # "ok" THEN pages
                       ELSE IF me.existing_page # NoPage
                       THEN UpdatePage(pages, me.existing_page.id, me.page_title, content)
                       ELSE CreatePage(pages, nextId, me.cfg.space_key, me.page_title,
                                       content, me.cfg.parent_page_id)
           /\ nextId' = IF f = "ok" /\ me.existing_page = NoPage THEN nextId + 1
                        ELSE nextId
           /\ writers' = [writers EXCEPT ![w] = WriterEnds(w, f, f = "ok")]
    /\ UNCHANGED writerFixed
    /\ UNCHANGED colVars
    /\ UNCHANGED <<genVars, runVars>>

\* a page somebody else wrote
ForeignPage == [id |-> 0, space |-> "S1", title |-> "Notes",
                body |-> StorageContent(Run("z", 5)), parent |-> "P0"]
InitialWikis == {{}, {ForeignPage}}

DataMaps == {d \in [Kinds -> UNION {CfgsOf(k) : k \in Kinds} \cup {NoCfg}] :
                \A k \in Kinds : d[k] \in CfgsOf(k) \cup {NoCfg}}

RemoteStep ==
    \E f \in Faults :
        \/ GhGetRepo(f)
        \/ GhCreateRelease(f)
        \/ SlackPost(f)
        \/ CfLookup(f)
        \/ CfWrite(f)

(***************************************************************************)
(* Collector.  Time is counted in days: since_date is a day, the timeout   *)
(* argument is a number of whole days, and a step that talks to the remote *)
(* service takes 0 or 1 day.  What the service lists for a repository is   *)
(* an input of the step that asks for it.                                  *)
(***************************************************************************)
MaxItems == 3
MaxClock == 2
MaxTimeout == 0

SinceDays == 7

RepoNames == <<"A", "B", "C">>

\* what the service can list for a repository: an item merged (authored,
\* updated) on the day the window of a call at day 0 starts, one from the day
\* before, and an unmerged pull request, which an issue search lists with a
\* pull_request marker
Fresh == [ts |-> 0 - SinceDays, merged |-> TRUE, pull_request |-> FALSE]
Stale == [ts |-> 0 - SinceDays - 1, merged |-> TRUE, pull_request |-> FALSE]
OpenPull == [ts |-> 1 - SinceDays, merged |-> FALSE, pull_request |-> TRUE]
Pool == {Fresh, Stale, OpenPull}

FeedsUpTo(n) == UNION {[1..k -> Pool] : k \in 0..n}

\* the number of items the listings of seq hold together
RECURSIVE Listed(_)
Listed(seq) == IF seq = <<>> THEN 0 ELSE Len(Head(seq).items) + Listed(Tail(seq))

\* the listings a step of the call in progress can get: the repositories of
\* one get_* call list up to MaxItems items together, one item at most inside
\* collect_data
Feeds == FeedsUpTo((IF centry = "collect_data" THEN 1 ELSE MaxItems) - Listed(served))

\* since_date = datetime.now() - timedelta(days=since_days)
Boundary(t) == t - SinceDays

\* the dictionary appended for item number i of repository name; raw is the
\* listed item it was built from
ResultItemOfFirstRepo(k, name, i, raw) ==
    CASE k = "prs" -> [id |-> i, merged_at |-> raw.ts, repository |-> RepoNames[1], raw |-> raw]
      [] k = "commits" -> [sha |-> i, date |-> raw.ts, repository |-> RepoNames[1], raw |-> raw]
      [] k = "issues" -> [id |-> i, updated_at |-> raw.ts, repository |-> RepoNames[1], raw |-> raw]

ResultItem(k, name, i, raw) ==
    CASE k = "prs" -> [id |-> i, merged_at |-> raw.ts, repository |-> name, raw |-> raw]
      [] k = "commits" -> [sha |-> i, date |-> raw.ts, repository |-> name, raw |-> raw]
      [] k = "issues" -> [id |-> i, updated_at |-> raw.ts, repository |-> name, raw |-> raw]

\* "if not pr.merged or not pr.merged_at or pr.merged_at < since_date: continue"
SkipPullIgnoringDate(raw, sd) == ~raw.merged

SkipPull(raw, sd) == ~raw.merged \/ raw.ts < sd

\* "if hasattr(issue, 'pull_request') and issue.pull_request: continue"
SkipIssueNever(raw) == FALSE

SkipIssue(raw) == raw.pull_request

Keeps(k, raw, sd) ==
    CASE k = "prs" -> ~SkipPull(raw, sd)
      [] k = "commits" -> TRUE
      [] k = "issues" -> ~SkipIssue(raw)

\* "if (datetime.now() - start_time).total_seconds() > timeout"
TimeoutReached(t, start, limit) == t - start > limit

\* start_time = datetime.now(), in every get_* call
RunStartTime(t, old) == IF Len(kinds_run) > 1 THEN old ELSE t

KindStartTime(t, old) == t

\* the loop position after the except clause of the loop body
AfterErrorStops(j) == Len(repositories) + 1

AfterError(j) == j + 1

\* merged_prs.append(...) / commits.append(...) / issues.append(...)
AddItemInFront(list, item) == <<item>> \o list

AddItem(list, item) == Append(list, item)

\* the list after the except clause of the loop body: before is the list as
\* it was when the loop came to the failed repository
KeptAfterErrorRollsBack(list, before) == before

KeptAfterError(list, before) == list

\* how the loop left a repository: the items of its listing it went through,
\* and whether it got to the end of the listing without an error
Left(feed, seen, ok) == [items |-> SubSeq(feed, 1, seen), ok |-> ok]

\* what the timeout branch returns
TimeoutDiscards(list) == <<>>

TimeoutResult(list) == list

\* "if not self.collect_issues" / "if self.collect_issues"
IssuesAlwaysEnabled == TRUE

IssuesEnabled == collect_issues

NoRequests == [k \in {"prs", "commits", "issues"} |-> [resolve |-> 0, fetch |-> 0]]
NoData == [collected_at |-> 0, merged_prs |-> <<>>, commits |-> <<>>, issues |-> <<>>]

\* resolve counts the repository lookups of a kind; fetch becomes 1 with the
\* kind's first request for activity data
CountRequest(rq, k, what) ==
    [rq EXCEPT ![k][what] = IF what = "fetch" THEN 1 ELSE @ + 1]

DataKey(k) == CASE k = "prs" -> "merged_prs"
                [] k = "commits" -> "commits"
                [] k = "issues" -> "issues"

EntryOf(k) == CASE k = "prs" -> "get_merged_prs"
                [] k = "commits" -> "get_recent_commits"
                [] k = "issues" -> "get_updated_issues"

colFixed == <<organization, repository, collect_issues, centry, timeout>>

\* a kind starts: since_date is computed, then the repositories are resolved
StartKind(k, t) ==
    /\ kind' = k
    /\ since_date' = Boundary(t)
    /\ kinds_run' = Append(kinds_run, [kind |-> k, at |-> t, since_date |-> Boundary(t),
                                       timed_out |-> FALSE])
    /\ acc' = <<>>
    /\ acc0' = <<>>
    /\ served' = <<>>
    /\ late_calls' = 0
    /\ pulls' = <<>>
    /\ timed_out' = FALSE
    /\ repositories' = <<>>
    /\ ri' = 1
    /\ ii' = 1
    /\ cpc' = "resolve"

CallKind(k, limit) ==
    /\ cpc = "idle"
    /\ centry' = EntryOf(k)
    /\ timeout' = limit
    /\ IF k = "issues" /\ ~IssuesEnabled
       THEN /\ kind' = k
            /\ acc' = <<>>
            /\ cpc' = "kind_done"
            /\ UNCHANGED <<since_date, kinds_run, acc0, served, late_calls, pulls,
                           timed_out, repositories, ri, ii>>
       ELSE StartKind(k, now)
    /\ UNCHANGED <<organization, repository, collect_issues, now, start_time, coll,
                   requests>>
    /\ UNCHANGED pubVars
    /\ UNCHANGED <<genVars, runVars>>

CallCollectData(limit) ==
    /\ cpc = "idle"
    /\ centry' = "collect_data"
    /\ timeout' = limit
    /\ coll' = [NoData EXCEPT !.collected_at = now]
    /\ StartKind("prs", now)
    /\ UNCHANGED <<organization, repository, collect_issues, now, start_time, requests>>
    /\ UNCHANGED pubVars
    /\ UNCHANGED <<genVars, runVars>>

\* the for-loop over repositories goes on with position j, or the kind is done
LoopFrom(j, reps, list) ==
    /\ ri' = j
    /\ ii' = 1
    /\ pulls' = <<>>
    /\ acc0' = list
    /\ cpc' = IF j > Len(reps) THEN "kind_done" ELSE "search"

\* get_repositories(): answer is how the service answers the lookup
Resolve(answer, d) ==
    /\ cpc = "resolve"
    /\ now + d <= MaxClock
    /\ now' = now + d
    /\ LET asks == organization
           reps == IF answer # "ok" THEN <<>>
                   ELSE IF repository /\ organization THEN <<RepoNames[1]>>
                   ELSE IF organization THEN RepoNames
                   ELSE <<>>
       IN  /\ asks \/ (answer = "ok" /\ d = 0)
           /\ requests' = IF asks THEN CountRequest(requests, kind, "resolve")
                          ELSE requests
           /\ IF asks /\ answer \notin {"ok", "api"}
              THEN /\ cpc' = "raised"
                   /\ UNCHANGED <<repositories, start_time, ri, ii, pulls, acc0>>
              ELSE /\ repositories' = reps
                   /\ start_time' = KindStartTime(now', start_time)
                   /\ LoopFrom(1, reps, acc)
    /\ UNCHANGED <<colFixed, kind, since_date, acc, served, late_calls, coll, timed_out,
                   kinds_run>>
    /\ UNCHANGED pubVars
    /\ UNCHANGED <<genVars, runVars>>

\* search_issues(query) / repo.get_commits(since=since_date) for repository
\* ri: the service lists feed, or the request fails
Search(ok, d) ==
    /\ cpc = "search"
    /\ now + d <= MaxClock
    /\ now' = now + d
    /\ requests' = CountRequest(requests, kind, "fetch")
    /\ late_calls' = IF TimeoutReached(now, start_time, timeout) THEN late_calls + 1
                     ELSE late_calls
    /\ \E feed \in Feeds :
          IF ok /\ feed # <<>>
          THEN /\ pulls' = feed
               /\ cpc' = "item"
               /\ UNCHANGED <<ri, ii, acc0, served>>
          ELSE /\ feed = <<>>
               /\ served' = Append(served, Left(<<>>, 0, ok))
               /\ LoopFrom(IF ok THEN ri + 1 ELSE AfterError(ri), repositories, acc)
    /\ UNCHANGED <<colFixed, kind, since_date, start_time, repositories, acc, coll,
                   timed_out, kinds_run>>
    /\ UNCHANGED pubVars
    /\ UNCHANGED <<genVars, runVars>>

\* one turn of the for-loop over the items of repository ri
Item(ok, d) ==
    /\ cpc = "item"
    /\ IF TimeoutReached(now, start_time, timeout)
       THEN /\ ok /\ d = 0
            /\ timed_out' = TRUE
            /\ acc' = TimeoutResult(acc)
            /\ cpc' = "kind_done"
            /\ kinds_run' = [kinds_run EXCEPT ![Len(kinds_run)].timed_out = TRUE]
            /\ UNCHANGED <<now, requests, ri, ii, pulls, acc0, served>>
       ELSE /\ now + d <= MaxClock
            /\ now' = now + d
            /\ timed_out' = FALSE
            /\ requests' = IF kind = "prs" THEN CountRequest(requests, kind, "fetch")
                           ELSE requests
            /\ LET name == repositories[ri]
                   raw == pulls[ii]
                   list == IF ~ok THEN KeptAfterError(acc, acc0)
                           ELSE IF Keeps(kind, raw, since_date)
                           THEN AddItem(acc, ResultItem(kind, name, ii, raw))
                           ELSE acc
               IN  /\ acc' = list
                   /\ UNCHANGED kinds_run
                   /\ IF ok /\ ii < Len(pulls)
                      THEN /\ ii' = ii + 1
                           /\ UNCHANGED <<ri, cpc, pulls, acc0, served>>
                      ELSE /\ served' = Append(served, Left(pulls, IF ok THEN ii ELSE ii - 1, ok))
                           /\ LoopFrom(IF ok THEN ri + 1 ELSE AfterError(ri),
                                       repositories, list)
    /\ UNCHANGED <<colFixed, kind, since_date, start_time, repositories, late_calls, coll>>
    /\ UNCHANGED pubVars
    /\ UNCHANGED <<genVars, runVars>>

\* get_* returns its list: to the caller, or to collect_data, which stores it
\* and goes on with the next kind
KindReturn ==
    /\ cpc = "kind_done"
    /\ IF centry # "collect_data"
       THEN /\ cpc' = "returned"
            /\ UNCHANGED <<kind, since_date, kinds_run, acc, acc0, served, late_calls,
                           pulls, timed_out, repositories, ri, ii, coll>>
       ELSE LET stored == [coll EXCEPT ![DataKey(kind)] = acc]
            IN  IF kind = "prs"
                THEN /\ coll' = stored
                     /\ StartKind("commits", now)
                ELSE IF kind = "commits" /\ IssuesEnabled
                THEN /\ coll' = stored
                     /\ StartKind("issues", now)
                ELSE /\ coll' = IF kind = "commits"
                                THEN [stored EXCEPT !.issues = <<>>]
                                ELSE stored
                     /\ cpc' = "returned"
                     /\ UNCHANGED <<kind, since_date, kinds_run, acc, acc0, served,
                                    late_calls, pulls, timed_out, repositories, ri, ii>>
    /\ UNCHANGED <<colFixed, now, start_time, requests>>
    /\ UNCHANGED pubVars
    /\ UNCHANGED <<genVars, runVars>>

(***************************************************************************)
(* Text generation.  A prompt is kept as the lists of what it names of the *)
(* activity: the ids of the pull requests, the shas of the commits, the    *)
(* ids of the issues.  Which pull requests the documentation prompt counts *)
(* as documentation or feature work depends on titles and labels, which    *)
(* the activity items here do not carry; it names them all.                *)
(***************************************************************************)
GenEntries == {"generate_release_notes", "generate_documentation_update"}

\* an activity item without the keys the prompt builders read
Malformed == [repository |-> "A"]

SampleData ==
    [NoData EXCEPT !.merged_prs = <<ResultItem("prs", "A", 1, Fresh)>>,
                   !.commits = <<ResultItem("commits", "A", 1, Fresh)>>,
                   !.issues = <<ResultItem("issues", "A", 1, Fresh)>>]

\* what a caller can pass as github_data
GeneratorInputs ==
    { NoData,
      SampleData,
      [SampleData EXCEPT !.merged_prs = <<ResultItem("prs", "A", 1, Fresh), Malformed>>],
      [SampleData EXCEPT !.commits = <<Malformed>>] }

\* pr['id'], commit['sha'], issue['id'] exist for every item of the list
Readable(list, key) == \A i \in DOMAIN list : key \in DOMAIN list[i]

Named(list, key) == [i \in DOMAIN list |-> list[i][key]]

\* _create_release_notes_prompt raises (KeyError)
ReleasePromptFails(d) ==
    ~(Readable(d.merged_prs, "id") /\ Readable(d.commits, "sha") /\ Readable(d.issues, "id"))

ReleasePrompt(d) ==
    [prs |-> Named(d.merged_prs, "id"),
     commits |-> Named(d.commits, "sha"),
     issues |-> Named(d.issues, "id")]

\* _create_documentation_update_prompt raises (KeyError)
DocPromptFails(d) == ~Readable(d.merged_prs, "id")

DocPrompt(d) == [prs |-> Named(d.merged_prs, "id")]

PromptFails(e, d) ==
    IF e = "generate_release_notes" THEN ReleasePromptFails(d) ELSE DocPromptFails(d)

PromptOf(e, d) ==
    IF e = "generate_release_notes" THEN ReleasePrompt(d) ELSE DocPrompt(d)

NoPrompt == [none |-> TRUE]
NoResponse == [choices |-> <<>>]

\* what the completion service can answer
Responses == {[choices |-> <<ShortDoc>>], [choices |-> <<ShortDoc, LongDoc>>], NoResponse}

\* response.choices[0].message.content
LastChoice(resp) == resp.choices[Len(resp.choices)]

FirstChoice(resp) == resp.choices[1]

\* f"Error generating release notes: {e}" / f"Error generating documentation update: {e}"
ErrorDoc(e) == IF e = "generate_release_notes" THEN Run("E", 32) ELSE Run("E", 39)

\* the data as the prompt builders leave it
DataWithoutPulls(d) == [d EXCEPT !.merged_prs = <<>>]

DataAfterPrompt(d) == d

\* generate_release_notes / generate_documentation_update is called: the
\* prompt is built, outside the try
CallGenerate(e, d) ==
    /\ gen_pc = "idle"
    /\ gen_entry' = e
    /\ completions' = <<>>
    /\ response' = NoResponse
    /\ gen_ret' = <<>>
    /\ IF PromptFails(e, d)
       THEN /\ gen_pc' = "raised"
            /\ prompt' = NoPrompt
            /\ github_data' = d
       ELSE /\ gen_pc' = "request"
            /\ prompt' = PromptOf(e, d)
            /\ github_data' = DataAfterPrompt(d)
    /\ UNCHANGED issued
    /\ UNCHANGED <<pubVars, colVars, runVars>>

\* self.client.chat.completions.create(...), inside try / except Exception
Complete(f, resp) ==
    /\ gen_pc = "request"
    /\ completions' = Append(completions, [entry |-> gen_entry, user |-> prompt, fault |-> f])
    /\ issued' = issued + 1
    /\ IF f = "ok" /\ resp.choices # <<>>
       THEN /\ response' = resp
            /\ gen_ret' = FirstChoice(resp)
       ELSE /\ f # "ok" => resp = NoResponse
            /\ response' = resp
            /\ gen_ret' = ErrorDoc(gen_entry)
    /\ gen_pc' = "returned"
    /\ UNCHANGED <<gen_entry, github_data, prompt>>
    /\ UNCHANGED <<pubVars, colVars, runVars>>

GeneratorIdle ==
    /\ gen_entry = "none"
    /\ gen_pc = "idle"
    /\ github_data = NoData
    /\ prompt = NoPrompt
    /\ completions = <<>>
    /\ response = NoResponse
    /\ gen_ret = <<>>
    /\ issued = 0

RunIdle ==
    /\ run_pc = "idle"
    /\ handed = NoData
    /\ notes = <<>>
    /\ doc_updates = <<>>
    /\ written = <<>>
    /\ run_ret = FALSE

CollectorIdle ==
    /\ now = 0
    /\ centry = "none"
    /\ cpc = "idle"
    /\ kind = "none"
    /\ timeout = 0
    /\ since_date = 0
    /\ start_time = 0
    /\ repositories = <<>>
    /\ ri = 1
    /\ ii = 1
    /\ pulls = <<>>
    /\ acc = <<>>
    /\ acc0 = <<>>
    /\ served = <<>>
    /\ late_calls = 0
    /\ coll = NoData
    /\ timed_out = FALSE
    /\ kinds_run = <<>>
    /\ requests = NoRequests

PublisherIdle ==
    /\ nextId = 1
    /\ today = 1
    /\ entry = "none"
    /\ pc = "idle"
    /\ release_notes = <<>>
    /\ data = [k \in Kinds |-> NoCfg]
    /\ results = InitialResults
    /\ attempted = <<>>
    /\ ret = FALSE
    /\ page_title = None
    /\ existing_page = NoPage
    /\ trace = <<>>
    /\ writers = [w \in Writers |-> WriterIdle]

\* a publisher just constructed and a wiki, beside a collector nobody calls
InitPublisher ==
    /\ github \in BOOLEAN
    /\ slack_client \in BOOLEAN
    /\ confluence \in BOOLEAN
    /\ pages \in InitialWikis
    /\ PublisherIdle
    /\ organization = FALSE
    /\ repository = FALSE
    /\ collect_issues = TRUE
    /\ CollectorIdle
    /\ GeneratorIdle
    /\ RunIdle
    /\ publish_enabled = FALSE

\* a collector just constructed, beside a publisher nobody calls
InitCollector ==
    /\ organization \in BOOLEAN
    /\ repository \in BOOLEAN
    /\ collect_issues \in BOOLEAN
    /\ CollectorIdle
    /\ github = FALSE
    /\ slack_client = FALSE
    /\ confluence = FALSE
    /\ pages = {}
    /\ PublisherIdle
    /\ GeneratorIdle
    /\ RunIdle
    /\ publish_enabled = FALSE

\* one collector call
NextCollector ==
    \/ \E k \in {"prs", "commits", "issues"}, limit \in 0..MaxTimeout : CallKind(k, limit)
    \/ \E limit \in 0..MaxTimeout : CallCollectData(limit)
    \/ \E answer \in {"ok", "api", "network"}, d \in 0..1 : Resolve(answer, d)
    \/ \E ok \in BOOLEAN, d \in 0..1 : Search(ok, d)
    \/ \E ok \in BOOLEAN, d \in 0..1 : Item(ok, d)
    \/ KindReturn

SpecCollector == InitCollector /\ [][NextCollector]_vars

\* any sequence of publisher calls, one at a time
NextPublisher ==
    \/ \E doc \in WikiDocs, d \in DataMaps : CallPublishAll(doc, d)
    \/ \E doc \in WikiDocs, cfg \in GithubCfgs : CallPublishTo("github", doc, cfg)
    \/ \E doc \in Docs, cfg \in SlackCfgs : CallPublishTo("slack", doc, cfg)
    \/ \E doc \in WikiDocs, cfg \in ConfluenceCfgs : CallPublishTo("confluence", doc, cfg)
    \/ RemoteStep
    \/ Finish
    \/ Tick

SpecPublisher == InitPublisher /\ [][NextPublisher]_vars

\* two invocations of publish_to_confluence on one publisher
NextTwoWriters ==
    \/ \E w \in Writers, doc \in WikiDocs, cfg \in ConfluenceCfgs : WriterCall(w, doc, cfg)
    \/ \E w \in Writers, f \in Faults : WriterLookup(w, f)
    \/ \E w \in Writers, f \in Faults : WriterWrite(w, f)

SpecTwoWriters == InitPublisher /\ [][NextTwoWriters]_vars

(***************************************************************************)
(* Properties of the publisher.                                            *)
(***************************************************************************)
(* generate_and_publish.  The run calls collect_data, the generator and    *)
(* publish_all; their steps are the actions above.  What the run reads of  *)
(* its configuration and environment is an input of the step that reads    *)
(* it.                                                                     *)
(***************************************************************************)
\* "\n\n## Documentation Update Suggestions\n\n"
DocHeader == Run("#", 40)

\* what the with-block writes to the release notes file
FileContent(text, docs) == IF docs # <<>> THEN text \o DocHeader \o docs ELSE text

\* all(results.values())
AllAttemptedOutcomes(r) == \A k \in {attempted[i] : i \in DOMAIN attempted} : r[k]

AllOutcomes(r) == \A k \in DOMAIN r : r[k]

\* the publish section of the configuration
RunDataMaps ==
    {d \in DataMaps : d["confluence"] = NoCfg \/ d["confluence"].title = None}

NoOtherCall == cpc = "idle" /\ gen_pc = "idle" /\ pc = "idle"

\* a caller other than the run calls the generator
CallGenerator(e, d) ==
    /\ run_pc = "idle"
    /\ CallGenerate(e, d)

\* generate_and_publish is called and constructs the collector
RunStart ==
    /\ run_pc = "idle"
    /\ NoOtherCall
    /\ run_pc' = "collect"
    /\ UNCHANGED <<handed, notes, doc_updates, written, run_ret, publish_enabled>>
    /\ UNCHANGED <<pubVars, colVars, genVars>>

\* github_data = github_collector.collect_data(since_days=since_days)
RunCollect(limit) ==
    /\ run_pc = "collect"
    /\ CallCollectData(limit)

\* collect_data has returned: the run holds the dictionary and saves it
RunSave ==
    /\ run_pc = "collect"
    /\ cpc = "returned"
    /\ github_data' = coll
    /\ handed' = coll
    /\ run_pc' = "generator"
    /\ centry' = "none"
    /\ cpc' = "idle"
    /\ kind' = "none"
    /\ timeout' = 0
    /\ since_date' = 0
    /\ start_time' = 0
    /\ repositories' = <<>>
    /\ ri' = 1
    /\ ii' = 1
    /\ pulls' = <<>>
    /\ acc' = <<>>
    /\ acc0' = <<>>
    /\ served' = <<>>
    /\ late_calls' = 0
    /\ coll' = NoData
    /\ timed_out' = FALSE
    /\ kinds_run' = <<>>
    /\ requests' = NoRequests
    /\ UNCHANGED <<organization, repository, collect_issues, now>>
    /\ UNCHANGED <<gen_entry, gen_pc, prompt, completions, response, gen_ret, issued>>
    /\ UNCHANGED <<notes, doc_updates, written, run_ret, publish_enabled>>
    /\ UNCHANGED pubVars

\* an exception reaches the except clause of the run
RunAbort ==
    /\ \/ run_pc = "collect" /\ cpc = "raised"
       \/ run_pc \in {"notes", "docs"} /\ gen_pc = "raised"
       \/ run_pc = "publish" /\ pc = "raised"
    /\ run_pc' = "done"
    /\ run_ret' = FALSE
    /\ UNCHANGED <<handed, notes, doc_updates, written, publish_enabled>>
    /\ UNCHANGED <<pubVars, colVars, genVars>>

\* NoteGenerator(api_key=...): raises ValueError without a key or an endpoint
RunMakeGenerator(ok) ==
    /\ run_pc = "generator"
    /\ run_pc' = IF ok THEN "notes" ELSE "done"
    /\ run_ret' = FALSE
    /\ UNCHANGED <<handed, notes, doc_updates, written, publish_enabled>>
    /\ UNCHANGED <<pubVars, colVars, genVars>>

\* release_notes = note_generator.generate_release_notes(github_data=github_data, ...)
RunNotes ==
    /\ run_pc = "notes"
    /\ CallGenerate("generate_release_notes", github_data)

\* doc_updates = note_generator.generate_documentation_update(github_data=github_data, ...)
RunDocs ==
    /\ run_pc = "docs"
    /\ CallGenerate("generate_documentation_update", github_data)

\* the generator has returned; docs is config.get("generate_doc_updates", False)
RunTake(docs) ==
    /\ run_pc \in {"notes", "docs"}
    /\ gen_pc = "returned"
    /\ IF run_pc = "notes"
       THEN /\ notes' = gen_ret
            /\ doc_updates' = doc_updates
            /\ run_pc' = IF docs THEN "docs" ELSE "write"
       ELSE /\ ~docs
            /\ doc_updates' = gen_ret
            /\ notes' = notes
            /\ run_pc' = "write"
    /\ gen_entry' = "none"
    /\ gen_pc' = "idle"
    /\ prompt' = NoPrompt
    /\ completions' = <<>>
    /\ response' = NoResponse
    /\ gen_ret' = <<>>
    /\ UNCHANGED <<github_data, issued, handed, written, run_ret, publish_enabled>>
    /\ UNCHANGED <<pubVars, colVars>>

\* "if config.get('publish', {}).get('enabled', False):" ... "return True"
StageAfterWriteAlwaysPublishes(enabled) == "publisher"

StageAfterWrite(enabled) == IF enabled THEN "publisher" ELSE "done"

\* the release notes file is written, then publish.enabled is read
RunWrite(ok) ==
    /\ run_pc = "write"
    /\ IF ok
       THEN /\ written' = FileContent(notes, doc_updates)
            /\ run_pc' = StageAfterWrite(publish_enabled)
            /\ run_ret' = ~publish_enabled
       ELSE /\ written' = written
            /\ run_pc' = "done"
            /\ run_ret' = FALSE
    /\ UNCHANGED <<handed, notes, doc_updates, publish_enabled>>
    /\ UNCHANGED <<pubVars, colVars, genVars>>

\* Publisher(...): a client for each destination whose credentials are set
RunMakePublisher(g, s, c) ==
    /\ run_pc = "publisher"
    /\ github' = g
    /\ slack_client' = s
    /\ confluence' = c
    /\ run_pc' = "publish"
    /\ UNCHANGED <<pages, nextId, today, entry, pc, release_notes, data, results,
                   attempted, ret, page_title, existing_page, trace, writers>>
    /\ UNCHANGED <<handed, notes, doc_updates, written, run_ret, publish_enabled>>
    /\ UNCHANGED <<colVars, genVars>>

\* results = publisher.publish_all(release_notes, publish_data)
RunPublish(d) ==
    /\ run_pc = "publish"
    /\ CallPublishAll(notes, d)

\* return all(results.values())
RunFinish ==
    /\ run_pc = "publish"
    /\ pc = "returned"
    /\ run_pc' = "done"
    /\ run_ret' = AllOutcomes(results)
    /\ UNCHANGED <<handed, notes, doc_updates, written, publish_enabled>>
    /\ UNCHANGED <<pubVars, colVars, genVars>>

\* a generator, and a run configured with a repository of an organization or
\* with a repository alone
InitPipeline ==
    /\ organization \in BOOLEAN
    /\ repository = TRUE
    /\ collect_issues \in BOOLEAN
    /\ CollectorIdle
    /\ github = FALSE
    /\ slack_client = FALSE
    /\ confluence = FALSE
    /\ pages = {}
    /\ PublisherIdle
    /\ GeneratorIdle
    /\ RunIdle
    /\ publish_enabled \in BOOLEAN

\* one generator call, or one run
NextPipeline ==
    \/ \E e \in GenEntries, d \in GeneratorInputs : CallGenerator(e, d)
    \/ \E f \in Faults, resp \in Responses : Complete(f, resp)
    \/ RunStart
    \/ \E limit \in 0..MaxTimeout : RunCollect(limit)
    \/ \E answer \in {"ok", "api", "network"}, d \in 0..1 : Resolve(answer, d)
    \/ \E ok \in BOOLEAN, d \in 0..1 : Search(ok, d)
    \/ \E ok \in BOOLEAN, d \in 0..1 : Item(ok, d)
    \/ KindReturn
    \/ RunSave
    \/ RunAbort
    \/ \E ok \in BOOLEAN : RunMakeGenerator(ok)
    \/ RunNotes
    \/ RunDocs
    \/ \E docs \in BOOLEAN : RunTake(docs)
    \/ \E ok \in BOOLEAN : RunWrite(ok)
    \/ \E g \in BOOLEAN, s \in BOOLEAN, c \in BOOLEAN : RunMakePublisher(g, s, c)
    \/ \E d \in RunDataMaps : RunPublish(d)
    \/ RemoteStep
    \/ RunFinish

SpecPipeline == InitPipeline /\ [][NextPipeline]_vars

(***************************************************************************)
AttemptedSet == {attempted[i] : i \in DOMAIN attempted}
TimesAttempted(k) == Cardinality({i \in DOMAIN attempted : attempted[i] = k})
PublishAllReturned == entry = "publish_all" /\ pc = "returned"
SingleEntries == {"publish_to_github", "publish_to_slack", "publish_to_confluence"}
SomeFault == \E i \in DOMAIN trace : trace[i].fault # "ok"

C2_EveryConfiguredAttempted ==
    (entry = "publish_all" /\ pc \in {"returned", "raised"}) =>
        /\ pc = "returned"
        /\ \A k \in Kinds : Attempt(data, k) =>
              TimesAttempted(k) = 1 /\ results[k] \in BOOLEAN

\* C3: a publish_to_* call one of whose remote requests failed, in whatever
\* way, returns false and does not raise.
C3_RemoteFailureReturnsFalse ==
    (entry \in SingleEntries /\ SomeFault) =>
        /\ pc # "raised"
        /\ pc = "returned" => ret = FALSE

\* C4: the wiki never holds two pages of one title in one space, and after a
\* successful publish_to_confluence the one page of that space and title has
\* the body built from the document of that call.
C4_UpsertIdempotent ==
    /\ \A p, q \in pages : (p.space = q.space /\ p.title = q.title) => p = q
    /\ (entry = "publish_to_confluence" /\ pc = "returned" /\ ret) =>
          \E p \in pages :
              /\ {q \in pages : q.space = data["confluence"].space_key
                                /\ q.title = page_title} = {p}
              /\ p.body = StorageContent(release_notes)

\* a second publish of a title this publisher created, with another document
C4_Witness ==
    /\ entry = "publish_to_confluence" /\ pc = "returned" /\ ret
    /\ existing_page # NoPage
    /\ existing_page.id >= 1
    /\ existing_page.body # StorageContent(release_notes)
    /\ trace[Len(trace)].api = "update_page"

IsSlackPost(r) == r.api = "chat_postMessage"
IsSection(b) == b.type = "section"
SlackPosts == SelectSeq(trace, IsSlackPost)

\* t is an initial piece of s (both in run form)
RECURSIVE IsStrPrefix(_, _)
IsStrPrefix(t, s) ==
    IF t = <<>> THEN TRUE
    ELSE IF s = <<>> THEN FALSE
    ELSE /\ Head(t).ch = Head(s).ch
         /\ \/ Head(t).n = Head(s).n /\ IsStrPrefix(Tail(t), Tail(s))
            \/ Head(t).n < Head(s).n /\ Tail(t) = <<>>

\* C10: a call posts at most one chat message (exactly one when
\* publish_to_slack returns true); for a document longer than 3000 characters
\* its one content block holds the first 3000 characters and exactly one
\* truncation-notice block follows; otherwise the content block holds the
\* whole document and no notice follows.
C10_OneMessageOneNotice ==
    /\ Len(SlackPosts) <= 1
    /\ (entry = "publish_to_slack" /\ pc = "returned" /\ ret) => Len(SlackPosts) = 1
    /\ \A i \in DOMAIN SlackPosts :
          LET sections == SelectSeq(SlackPosts[i].req.blocks, IsSection)
          IN  IF StrLen(release_notes) > 3000
              THEN /\ Len(sections) = 2
                   /\ StrLen(sections[1].text) = 3000
                   /\ IsStrPrefix(sections[1].text, release_notes)
                   /\ sections[2].text = TruncationNotice
              ELSE /\ Len(sections) = 1
                   /\ sections[1].text = release_notes

\* a 5000-character document posted
C10_Witness ==
    /\ entry = "publish_to_slack" /\ pc = "returned" /\ ret
    /\ StrLen(release_notes) = 5000
    /\ Len(SlackPosts) = 1


(***************************************************************************)
(* Collector properties.                                                   *)
(***************************************************************************)
IsSeqPrefix(a, b) ==
    /\ Len(a) <= Len(b)
    /\ \A i \in 1..Len(a) : a[i] = b[i]

\* what a listed item must satisfy to belong in the result of its kind
Belongs(k, raw, sd) ==
    CASE k = "prs" -> raw.merged /\ raw.ts >= sd
      [] k = "commits" -> TRUE
      [] k = "issues" -> ~raw.pull_request

\* the entries the first n items of a listing contribute to the result
RECURSIVE RetainedUpTo(_, _, _, _, _)
RetainedUpTo(k, name, feed, n, sd) ==
    IF n = 0 THEN <<>>
    ELSE LET rest == RetainedUpTo(k, name, feed, n - 1, sd)
         IN  IF Belongs(k, feed[n], sd)
             THEN Append(rest, ResultItem(k, name, n, feed[n]))
             ELSE rest

CollectDataReturned == centry = "collect_data" /\ cpc = "returned"

\* C5: every entry get_merged_prs has retained, while it runs and in what
\* collect_data stores under merged_prs, was built from a pull request that is
\* merged and whose merge day is not before the since_date of that call,
\* whatever the search listed.
C5_RetainedAreMergedInWindow ==
    /\ kind = "prs" =>
          \A i \in 1..Len(acc) :
              /\ acc[i].raw.merged
              /\ acc[i].merged_at = acc[i].raw.ts
              /\ acc[i].merged_at >= since_date
    /\ (centry = "collect_data" /\ kinds_run # <<>>) =>
          \A i \in 1..Len(coll.merged_prs) :
              /\ coll.merged_prs[i].raw.merged
              /\ coll.merged_prs[i].merged_at >= kinds_run[1].since_date

\* get_merged_prs kept a pull request of the first repository, then met a
\* stale one in the listing of the second and left it out
C5_Witness ==
    /\ kind = "prs"
    /\ cpc = "item"
    /\ ri = 2
    /\ ii = 2
    /\ pulls[1] = Stale
    /\ acc0 # <<>>
    /\ acc = acc0

\* C6: in a collect_data run every kind collected so far compared against the
\* same since_date.
C6_OneBoundaryPerRun ==
    centry = "collect_data" =>
        \A i, j \in DOMAIN kinds_run : kinds_run[i].since_date = kinds_run[j].since_date

\* C7: with collect_issues false no request is ever made for the issue kind,
\* neither a repository lookup nor a search, get_updated_issues returns the
\* empty list, and collect_data's issues entry is the empty list.
C7_DisabledIssuesEmptyAndSilent ==
    ~collect_issues =>
        /\ requests["issues"] = [resolve |-> 0, fetch |-> 0]
        /\ coll.issues = <<>>
        /\ (kind = "issues" /\ cpc \in {"kind_done", "returned"}) => acc = <<>>
        /\ \A i \in DOMAIN kinds_run : kinds_run[i].kind # "issues"

\* collect_data returned with issue collection off after the service had
\* served it a commit
C7_Witness ==
    /\ ~collect_issues
    /\ CollectDataReturned
    /\ coll.commits # <<>>
    /\ requests["commits"].fetch > 0

\* the list built so far when the timeout check fires: what earlier
\* repositories contributed, then what the items of the current listing
\* already looked at contribute
KeptAtTimeout ==
    acc0 \o RetainedUpTo(kind, repositories[ri], pulls, ii - 1, since_date)

\* the same list had the loop gone through the whole current listing
WithoutTimeout ==
    acc0 \o RetainedUpTo(kind, repositories[ri], pulls, Len(pulls), since_date)

TimeoutFired == timed_out /\ cpc = "kind_done"

\* C8 as stated: when the timeout check fires the call returns a non-empty
\* prefix of what a run without the timeout would return.
C8_TimeoutReturnsNonEmptyPrefix ==
    TimeoutFired => (acc # <<>> /\ IsSeqPrefix(acc, WithoutTimeout))

\* C8: when the timeout check fires, the call is at its return point with
\* exactly the entries accumulated so far, possibly none: those of the
\* repositories gone through before, in order, followed by those of the items
\* of the current repository already looked at; this is a prefix of what the
\* loop would have built without the timeout.
C8_TimeoutReturnsAccumulated ==
    TimeoutFired =>
        /\ acc = KeptAtTimeout
        /\ IsSeqPrefix(acc, WithoutTimeout)
        /\ \A i \in 1..Len(acc0) :
               \E j \in 1..(ri - 1) : acc0[i].repository = repositories[j]
        /\ \A i \in (Len(acc0) + 1)..Len(acc) : acc[i].repository = repositories[ri]

\* the timeout check fired in the second repository with an item of each
\* repository accumulated and an item of the listing not yet looked at
C8_Witness ==
    /\ TimeoutFired
    /\ ri = 2
    /\ acc0 # <<>>
    /\ Len(acc) > Len(acc0)
    /\ ii <= Len(pulls)

\* C9: once collect_data has found no repository to work on, it has failed,
\* and no request for activity data has been made.
C9_UnresolvableIsFatal ==
    (centry = "collect_data" /\ repositories = <<>> /\ cpc \notin {"idle", "resolve"}) =>
        /\ cpc = "raised"
        /\ \A k \in {"prs", "commits", "issues"} : requests[k].fetch = 0

KindOrder == <<"prs", "commits", "issues">>

InCollectData == centry = "collect_data" /\ kinds_run # <<>>

ThisKind == kinds_run[Len(kinds_run)]

\* C11: in collect_data the kinds run one after the other in the order merged
\* PRs, commits, issues; the start_time a kind's timeout check compares with
\* is not earlier than that kind's own start, so a kind returns at the timeout
\* check only when more than the budget has passed since its own start; and a
\* run that returns has gone through every kind (issues when enabled), also
\* after a kind that returned at the timeout check.
C11_KindsSequentialOwnBudget ==
    InCollectData =>
        /\ \A i \in DOMAIN kinds_run : kinds_run[i].kind = KindOrder[i]
        /\ \A i \in DOMAIN kinds_run : i > 1 => kinds_run[i].at >= kinds_run[i - 1].at
        /\ cpc \in {"search", "item", "kind_done"} => start_time >= ThisKind.at
        /\ TimeoutFired => (ThisKind.timed_out /\ now - ThisKind.at > timeout)
        /\ cpc = "returned" => Len(kinds_run) = (IF collect_issues THEN 3 ELSE 2)

\* collect_data returned after its PR kind returned at the timeout check and
\* its commit kind, started later, went through without one and kept a commit
C11_Witness ==
    /\ CollectDataReturned
    /\ Len(kinds_run) = 3
    /\ kinds_run[1].timed_out
    /\ ~kinds_run[2].timed_out
    /\ kinds_run[2].at > kinds_run[1].at
    /\ coll.commits # <<>>

\* what the listings gone through in the first n repositories contribute to
\* the result of kind k
RECURSIVE RetainedOfAll(_, _, _, _, _)
RetainedOfAll(k, reps, sv, n, sd) ==
    IF n = 0 THEN <<>>
    ELSE RetainedOfAll(k, reps, sv, n - 1, sd)
         \o RetainedUpTo(k, reps[n], sv[n].items, Len(sv[n].items), sd)

\* the kind is at its return point after going through every repository
\* without an error and without the timeout
CleanRun ==
    /\ cpc = "kind_done"
    /\ ~timed_out
    /\ Len(served) = Len(repositories)
    /\ \A j \in DOMAIN served : served[j].ok

\* C13: when get_merged_prs has gone through all its repositories without an
\* error and without the timeout, its list is exactly, in order, the listed
\* pull requests that are merged with a merge day not before since_date, and
\* each entry carries the name of the repository in whose listing it was found.
C13_ExactlyTheMergedInWindow ==
    (kind = "prs" /\ CleanRun) =>
        /\ acc = RetainedOfAll("prs", repositories, served, Len(served), since_date)
        /\ \A i \in 1..Len(acc) :
               \E j \in DOMAIN served :
                   /\ repositories[j] = acc[i].repository
                   /\ acc[i].id \in DOMAIN served[j].items
                   /\ served[j].items[acc[i].id] = acc[i].raw
        /\ \A j \in DOMAIN served : \A n \in DOMAIN served[j].items :
               (served[j].items[n].merged /\ served[j].items[n].ts >= since_date) =>
                   \E i \in 1..Len(acc) :
                       /\ acc[i].repository = repositories[j]
                       /\ acc[i].id = n

\* repository A listed two pull requests merged inside the window and an older
\* one, B and C listed none: the result is the two, both tagged A
C13_Witness ==
    /\ kind = "prs"
    /\ CleanRun
    /\ Len(served) = 3
    /\ served[1].items = <<Fresh, Stale, Fresh>>
    /\ served[2].items = <<>>
    /\ Len(acc) = 2
    /\ \A i \in 1..2 : acc[i].repository = "A"

\* C18: every commit get_recent_commits has retained is dated on or after
\* since_date, and so is the update day of every issue get_updated_issues has
\* retained.
C18_CommitsAndIssuesInWindow ==
    /\ kind = "commits" => \A i \in 1..Len(acc) : acc[i].date >= since_date
    /\ kind = "issues" => \A i \in 1..Len(acc) : acc[i].updated_at >= since_date

\* C19: in one get_* call at most one search is started after the time since
\* start_time has exceeded the timeout.
C19_OneCallAfterBudget == late_calls <= 1

\* C20: no get_* call raises once its loop over the repositories has begun,
\* the loop leaves no repository out, whichever of them failed, and unless the
\* timeout check fires the call comes to its return point with every
\* repository gone through.
C20_RepositoryErrorsSkipped ==
    /\ cpc = "raised" => (served = <<>> /\ requests[kind].fetch = 0)
    /\ cpc \in {"search", "item"} => Len(served) = ri - 1
    /\ (cpc = "kind_done" /\ ~timed_out) => Len(served) = Len(repositories)

\* the first repository failed, the second was still searched and gave an
\* entry, and the call is at its return point with all three gone through
C20_Witness ==
    /\ cpc = "kind_done"
    /\ ~timed_out
    /\ Len(served) = 3
    /\ ~served[1].ok
    /\ served[2].ok
    /\ \E i \in 1..Len(acc) : acc[i].repository = "B"

(***************************************************************************)
(* Publisher properties, continued.                                        *)
(***************************************************************************)
\* the destination a remote request goes to
ApiKind(api) ==
    CASE api \in {"get_repo", "create_git_release"} -> "github"
      [] api = "chat_postMessage" -> "slack"
      [] api \in {"get_page_by_title", "update_page", "create_page"} -> "confluence"

RequestsTo(k) == {i \in DOMAIN trace : ApiKind(trace[i].api) = k}

\* C14: a publish_to_* call on a publisher without the client of that
\* destination has returned false and issued no request; publish_all never
\* invokes a destination without a client, whatever config it was given for
\* it, issues no request to it and keeps its outcome false; an exception that
\* leaves publish_all comes from a request to a destination that has a client;
\* and a publish_all that returns has invoked every configured destination
\* that has a client.
C14_MissingClientIsFalse ==
    /\ \A k \in Kinds :
          (entry = "publish_to_" \o k /\ ~Client(k)) =>
              (pc = "returned" /\ ret = FALSE /\ trace = <<>>)
    /\ entry = "publish_all" =>
          /\ \A k \in Kinds : ~Client(k) =>
                (k \notin AttemptedSet /\ results[k] = FALSE /\ RequestsTo(k) = {})
          /\ pc = "raised" =>
                (trace # <<>> /\ Client(ApiKind(trace[Len(trace)].api)))
          /\ pc = "returned" =>
                \A k \in Kinds : (Client(k) /\ data[k] # NoCfg) => k \in AttemptedSet

\* publish_all returned with a github config given to a publisher without a
\* GitHub client: github is false, slack was invoked and succeeded
C14_Witness ==
    /\ PublishAllReturned
    /\ ~github
    /\ data["github"] # NoCfg
    /\ results["github"] = FALSE
    /\ "slack" \in AttemptedSet
    /\ results["slack"] = TRUE

(***************************************************************************)
(* Generation and run properties.                                          *)
(***************************************************************************)
\* C12: no call of generate_release_notes or generate_documentation_update
\* raises; a call that is over has returned a document.
C12_GenerationNeverRaises ==
    gen_entry \in GenEntries =>
        /\ gen_pc # "raised"
        /\ gen_pc = "returned" => gen_ret # <<>>

\* the run could not resolve any repository: a repository is configured
\* without the organization it belongs to
Unresolvable == ~organization

\* C15: a run whose repository target cannot be resolved issues no completion
\* request.
C15_FailedCollectionStopsRun ==
    (run_pc # "idle" /\ Unresolvable) => issued = 0

RunPastCollect == run_pc \notin {"idle", "collect"}

\* C16: from the moment collect_data has returned it to the run, through
\* both generator calls, the file write and publish_all, github_data is the
\* dictionary collect_data returned.
C16_CollectedActivityUnchanged ==
    RunPastCollect => github_data = handed

\* a run that collected a pull request, generated notes and documentation
\* updates, wrote the file and published has ended
C16_Witness ==
    /\ run_pc = "done"
    /\ handed.merged_prs # <<>>
    /\ github_data = handed
    /\ issued = 2
    /\ written # <<>>
    /\ entry = "publish_all"
    /\ pc = "returned"

GenCallOver == gen_pc \in {"returned", "raised"}

RepoPos(name) == CHOOSE j \in DOMAIN repositories : repositories[j] = name

\* the number an entry carries: the position of its item in the listing
Number(item) == IF "sha" \in DOMAIN item THEN item.sha ELSE item.id

EntriesOf(j) ==
    Cardinality({i \in 1..Len(acc) : acc[i].repository = repositories[j]})

BelongingOf(j) ==
    Cardinality({n \in DOMAIN served[j].items :
                     Belongs(kind, served[j].items[n], since_date)})

\* C21: in the list of the kind being collected, an earlier entry comes from
\* a repository resolved earlier than that of a later entry, or from the same
\* repository and an earlier position of its listing; and every repository
\* gone through has as many entries as its listing has items that belong, so
\* equal items listed twice are both kept.
C21_OrderPreserved ==
    /\ \A i \in 1..Len(acc) : \E j \in DOMAIN repositories :
           repositories[j] = acc[i].repository
    /\ \A i, j \in 1..Len(acc) :
           i < j =>
               \/ RepoPos(acc[i].repository) < RepoPos(acc[j].repository)
               \/ /\ acc[i].repository = acc[j].repository
                  /\ Number(acc[i]) < Number(acc[j])
    /\ \A j \in DOMAIN served : EntriesOf(j) = BelongingOf(j)

\* get_recent_commits is at its return point: repository A listed the same
\* commit twice, B an older one, and the list has the three in that order
C21_Witness ==
    /\ kind = "commits"
    /\ cpc = "kind_done"
    /\ Len(served) = 3
    /\ served[1].items = <<Fresh, Fresh>>
    /\ served[2].items = <<Stale>>
    /\ Len(acc) = 3
    /\ acc[1].repository = "A" /\ acc[1].sha = 1
    /\ acc[2].repository = "A" /\ acc[2].sha = 2
    /\ acc[3].repository = "B" /\ acc[3].date < acc[2].date

\* the repository lookups of the run so far, over all kinds
Lookups ==
    requests["prs"].resolve + requests["commits"].resolve + requests["issues"].resolve

\* C22: a collect_data run of a collector with an organization makes no more
\* than one repository lookup, and has made exactly one when it returns.
C22_ResolvedOncePerRun ==
    (centry = "collect_data" /\ organization) =>
        /\ Lookups <= 1
        /\ cpc = "returned" => Lookups = 1

\* C24: no entry get_updated_issues has retained, while it runs and in what
\* collect_data stores under issues, was built from an item with a
\* pull_request marker, and no such item of a listing gone through has an
\* entry, whatever the search listed.
C24_NoPullRequestAmongIssues ==
    /\ kind = "issues" =>
           /\ \A i \in 1..Len(acc) : ~acc[i].raw.pull_request
           /\ \A j \in DOMAIN served : \A n \in DOMAIN served[j].items :
                  served[j].items[n].pull_request =>
                      ~\E i \in 1..Len(acc) :
                          /\ acc[i].repository = repositories[j]
                          /\ acc[i].id = n
    /\ \A i \in 1..Len(coll.issues) : ~coll.issues[i].raw.pull_request

\* the issue search of repository A listed a pull request between two issues:
\* get_updated_issues is at its return point with the two issues only
C24_Witness ==
    /\ kind = "issues"
    /\ cpc = "kind_done"
    /\ Len(served) = 3
    /\ served[1].items = <<Fresh, OpenPull, Stale>>
    /\ Len(acc) = 2
    /\ acc[1].id = 1
    /\ acc[2].id = 3

\* the call is inside its loop over the repositories, or resolving them
InsideCall == cpc \in {"resolve", "search", "item"}

\* a repository failed after the loop had gone through an item of its listing
FailedPartWay(j) == ~served[j].ok /\ served[j].items # <<>>

\* C28: when a get_* call comes to its return point without the timeout, its
\* list is the concatenation, in the order of the resolved repositories, of
\* the entries of the items each repository's loop went through before it
\* failed or ended; and no step inside a call removes or changes an entry
\* already in the list.
C28_PartialResultsKept ==
    /\ [](/\ (cpc = "kind_done" /\ ~timed_out) =>
                 acc = RetainedOfAll(kind, repositories, served, Len(served), since_date)
          /\ cpc = "search" =>
                 acc = RetainedOfAll(kind, repositories, served, ri - 1, since_date))
    /\ [][InsideCall => IsSeqPrefix(acc, acc')]_vars

\* repository A failed at its second item after its first had given an entry,
\* B then gave one: the call is at its return point with both, A's first
C28_Witness ==
    /\ cpc = "kind_done"
    /\ ~timed_out
    /\ Len(served) = 3
    /\ FailedPartWay(1)
    /\ served[2].ok
    /\ Len(acc) = 2
    /\ acc[1].repository = "A"
    /\ acc[2].repository = "B"

(***************************************************************************)
(* Wiki upsert.                                                            *)
(***************************************************************************)
IsWikiRequest(r) == ApiKind(r.api) = "confluence"

\* the requests the call in progress has made to the wiki, in order
WikiRequests == SelectSeq(trace, IsWikiRequest)

WikiLookups == {i \in DOMAIN trace : trace[i].api = "get_page_by_title"}
WikiWrites == {i \in DOMAIN trace : trace[i].api \in {"update_page", "create_page"}}

\* publish_to_confluence has been invoked, directly or by publish_all
WikiInvoked ==
    \/ entry = "publish_to_confluence"
    \/ entry = "publish_all" /\ "confluence" \in AttemptedSet

WikiOutcome == IF entry = "publish_all" THEN results["confluence"] ELSE ret

\* C23 as stated: a publish_to_confluence call on a publisher with a wiki
\* client that has returned has made exactly one lookup and exactly one write.
C23_ExactlyOneLookupOneWrite ==
    (entry = "publish_to_confluence" /\ confluence /\ pc = "returned") =>
        (Cardinality(WikiLookups) = 1 /\ Cardinality(WikiWrites) = 1)

\* C23: publish_to_confluence on a publisher with a wiki client makes one
\* lookup by the configured space and the page title; only after a lookup
\* that succeeded it makes one write, which is an update by the id of the
\* page the lookup found, a page of that space and title, or, when it found
\* none, a create under the configured parent; it makes no other request;
\* it never raises, and returns true exactly when lookup and write succeeded.
C23_OneLookupThenOneWrite ==
    LET t == WikiRequests
        c == data["confluence"]
    IN  /\ Len(t) <= 2
        /\ ~WikiInvoked => t = <<>>
        /\ t # <<>> =>
              /\ t[1].api = "get_page_by_title"
              /\ t[1].req = [space |-> c.space_key, title |-> page_title]
        /\ pc = "cf_write" =>
              /\ Len(t) = 1 /\ t[1].fault = "ok"
              /\ existing_page = GetPageByTitle(pages, c.space_key, page_title)
        /\ Len(t) = 2 =>
              /\ t[1].fault = "ok"
              /\ IF existing_page # NoPage
                 THEN /\ t[2].api = "update_page"
                      /\ t[2].req.page_id = existing_page.id
                      /\ existing_page.space = c.space_key
                      /\ existing_page.title = page_title
                 ELSE /\ t[2].api = "create_page"
                      /\ t[2].req.space = c.space_key
                      /\ t[2].req.title = page_title
                      /\ t[2].req.parent_id = c.parent_page_id
        /\ pc = "raised" => t = <<>>
        /\ (WikiInvoked /\ confluence /\ pc = "returned") =>
              /\ t # <<>>
              /\ t[1].fault = "ok" => Len(t) = 2
              /\ WikiOutcome = (Len(t) = 2 /\ t[2].fault = "ok")

\* a direct call found the page titled Notes of space S1 and updated it by
\* its id
C23_Witness ==
    /\ entry = "publish_to_confluence"
    /\ pc = "returned"
    /\ ret
    /\ Len(trace) = 2
    /\ trace[2].api = "update_page"
    /\ trace[2].req.page_id = existing_page.id
    /\ existing_page.title = "Notes"

(***************************************************************************)
(* Wiki upsert under interleaving.                                         *)
(***************************************************************************)
PagesTitled(space, title) == {p \in pages : p.space = space /\ p.title = title}

\* two invocations for one space and title that ran side by side, both begun
\* on a wiki without such a page, are both over
BothOver(v, w) ==
    /\ v # w
    /\ writers[v].pc = "returned" /\ writers[w].pc = "returned"
    /\ writers[v].overlap /\ writers[w].overlap
    /\ writers[v].fresh /\ writers[w].fresh
    /\ writers[v].cfg.space_key = writers[w].cfg.space_key
    /\ writers[v].page_title = writers[w].page_title

\* C26: when two publish_to_confluence invocations for the same space and
\* title, begun side by side on a wiki that has no such page, are both over,
\* the space has at most one page of that title.
C26_NoDuplicateUnderInterleaving ==
    \A v, w \in Writers :
        BothOver(v, w) =>
            Cardinality(PagesTitled(writers[v].cfg.space_key, writers[v].page_title)) <= 1

(***************************************************************************)
(* Run properties, continued.                                              *)
(***************************************************************************)
StageRank(p) ==
    CASE p = "idle" -> 0
      [] p = "collect" -> 1
      [] p = "generator" -> 2
      [] p = "notes" -> 3
      [] p = "docs" -> 4
      [] p = "write" -> 5
      [] p = "publisher" -> 6
      [] p = "publish" -> 7
      [] p = "done" -> 8

\* publish_all or a publish_to_* has been entered, or a request made
PublishingBegun ==
    entry # "none" \/ pc # "idle" \/ attempted # <<>> \/ trace # <<>>

InRun == run_pc # "idle"

\* C25 as stated, last part: a run with publish.enabled false that is over
\* has reported success.
C25_DisabledRunSucceeds ==
    (run_pc = "done" /\ ~publish_enabled) => run_ret

\* C25: a run never goes back to an earlier stage; it issues no completion
\* request and enters no generator call before collect_data has returned; no
\* destination is attempted before the release notes have been generated and
\* written to the file; with publish.enabled false no destination is ever
\* attempted, and the run returns true once the file has been written.
C25_CollectGeneratePublish ==
    /\ [](InRun =>
            /\ ~RunPastCollect => (issued = 0 /\ gen_pc = "idle" /\ handed = NoData)
            /\ (issued > 0 \/ gen_pc # "idle") => cpc = "idle"
            /\ PublishingBegun =>
                  /\ notes # <<>>
                  /\ written = FileContent(notes, doc_updates)
                  /\ issued > 0
                  /\ gen_pc = "idle"
                  /\ release_notes = notes \/ entry = "none"
            /\ ~publish_enabled =>
                  /\ ~PublishingBegun
                  /\ (run_pc = "done" /\ written # <<>>) => run_ret)
    /\ [][StageRank(run_pc') >= StageRank(run_pc)]_vars

\* a run with publishing disabled collected a pull request, generated the
\* notes, wrote the file and returned true without entering the publisher
C25_Witness ==
    /\ run_pc = "done"
    /\ ~publish_enabled
    /\ run_ret
    /\ handed.merged_prs # <<>>
    /\ issued = 1
    /\ written = notes
    /\ ~PublishingBegun

\* C27: a run with publish.enabled true that is over has returned true
\* exactly when publish_all returned an outcome whose entries github, slack
\* and confluence are all true; so it has returned false whenever one of the
\* three destinations had no client or no config, whatever the destinations
\* that were attempted returned.
C27_TrueIffAllThreeTrue ==
    (run_pc = "done" /\ publish_enabled) =>
        /\ run_ret <=> (PublishAllReturned /\ \A k \in Kinds : results[k])
        /\ PublishAllReturned => DOMAIN results = Kinds
        /\ (\E k \in Kinds : ~Client(k) \/ data[k] = NoCfg) => ~run_ret

\* the run published to GitHub and the chat, both with success, the wiki had
\* no client or no config: the run returned false
C27_Witness ==
    /\ run_pc = "done"
    /\ publish_enabled
    /\ PublishAllReturned
    /\ attempted = <<"github", "slack">>
    /\ results["github"] /\ results["slack"]
    /\ ~SomeFault
    /\ ~run_ret

====
